---------------------------- MODULE Spec2Model ----------------------------
(***************************************************************************)
(* Model of src/server.js: the MQTT alarm ingestion handler, the alarm log *)
(* (collection 'alarm'), the device registry (collection of Device), the   *)
(* serial registration route, the read routes, the TTL index and the start *)
(* of the server with its MQTT connection.                                 *)
(*                                                                         *)
(* Four specifications share the state:                                    *)
(*   Spec       events and registrations handled one at a time, each to    *)
(*              its end, with storage calls that may be rejected;          *)
(*   SpecQuery  the read routes, the clock and the expiry pass;            *)
(*   SpecAsync  the handlers interleaved at their awaits;                  *)
(*   SpecMqtt   the start of the server and the MQTT connection.           *)
(*                                                                         *)
(* Strings are sequences of one-character strings, so that parseInt and    *)
(* the Date constructor can be modelled by what they do to the text.  A    *)
(* raw MQTT payload is given by the list of pieces between its single      *)
(* spaces (the list String.prototype.split(' ') returns for it); an empty  *)
(* piece stands for two adjacent spaces or a leading / trailing space.     *)
(* The space is the only whitespace character of the model.                *)
(***************************************************************************)
EXTENDS Integers, Sequences, FiniteSets, TLC

VARIABLES
    alarm,      \* the AlarmLog collection, in insertion order
    device,     \* the Device collection, in insertion order
    nextId,     \* the next document _id of the alarm collection
    up,         \* the process runs: no rejection has escaped a handler
    last,       \* the last operation handled: its input, its storage calls, its outcome
    now,        \* the clock of the storage engine, in hours
    handlers,   \* the handlers started and not yet forgotten, in the order of their start
    mongoose,   \* the connection to MongoDB
    client,     \* the MQTT client: its connection and its subscription
    broker      \* the MQTT broker can be reached

vars == <<alarm, device, nextId, up, last, now, handlers, mongoose, client, broker>>

---------------------------------------------------------------------------
(* Bounds of the model *)

\* the alarm collection holds at most this many documents
MaxRecords == 3

---------------------------------------------------------------------------
(* Optional values: null / undefined is the empty sequence *)

Null == <<>>

Some(x) == <<x>>

---------------------------------------------------------------------------
(* Text *)

Digits == {"0", "1", "2", "3", "4", "5", "6", "7", "8", "9"}

DigitVal(c) ==
    CASE c = "0" -> 0 [] c = "1" -> 1 [] c = "2" -> 2 [] c = "3" -> 3
      [] c = "4" -> 4 [] c = "5" -> 5 [] c = "6" -> 6 [] c = "7" -> 7
      [] c = "8" -> 8 [] c = "9" -> 9

\* a JavaScript number that may be NaN
NaN == [nan |-> TRUE, val |-> 0]

Num(v) == [nan |-> FALSE, val |-> v]

\* x === k for a number literal k
StrictEq(x, k) == ~x.nan /\ x.val = k

\* Greater with >= for >
GreaterOrEqual(x, k) == ~x.nan /\ x.val >= k

\* x > k for a number literal k (false for NaN)
Greater(x, k) == ~x.nan /\ x.val > k

RECURSIVE DigitPrefixLen(_)
DigitPrefixLen(s) ==
    IF s = <<>> \/ Head(s) \notin Digits THEN 0 ELSE 1 + DigitPrefixLen(Tail(s))

RECURSIVE DigitsValue(_)
DigitsValue(s) ==
    IF s = <<>> THEN 0
    ELSE 10 * DigitsValue(SubSeq(s, 1, Len(s) - 1)) + DigitVal(s[Len(s)])

\* parseInt(s): an optional sign, then the longest prefix of decimal digits;
\* what follows the digits is ignored; NaN when there is no digit.
ParseInt(s) ==
    LET signed == s # <<>> /\ Head(s) \in {"-", "+"}
        body   == IF signed THEN Tail(s) ELSE s
        n      == DigitPrefixLen(body)
        v      == DigitsValue(SubSeq(body, 1, n))
    IN  IF n = 0 THEN NaN
        ELSE IF signed /\ Head(s) = "-" THEN Num(0 - v) ELSE Num(v)


---------------------------------------------------------------------------
(* Time *)

HoursPerDay == 24

\* the fixed zone suffix "+09:00" appended to every event time
KstOffsetHours == 9

\* a date piece is "d" and one digit (the day), a time piece "t" and one
\* digit (the hour); any other text makes the Date invalid
DayOf(s) ==
    IF Len(s) = 2 /\ s[1] = "d" /\ s[2] \in Digits THEN Num(DigitVal(s[2])) ELSE NaN

HourOf(s) ==
    IF Len(s) = 2 /\ s[1] = "t" /\ s[2] \in Digits THEN Num(DigitVal(s[2])) ELSE NaN

InvalidDate == [valid |-> FALSE, t |-> 0]

\* new Date(`${date_part}T${time_part}+09:00`): the instant, in hours, of
\* the local time read in the zone nine hours ahead of UTC
MakeDate(date_part, time_part) ==
    LET d == DayOf(date_part)
        h == HourOf(time_part)
    IN  IF d.nan \/ h.nan THEN InvalidDate
        ELSE [valid |-> TRUE, t |-> d.val * HoursPerDay + h.val - KstOffsetHours]

---------------------------------------------------------------------------
(* The payload *)

RECURSIVE DropLeadingEmpty(_)
DropLeadingEmpty(ps) ==
    IF Len(ps) > 1 /\ Head(ps) = <<>> THEN DropLeadingEmpty(Tail(ps)) ELSE ps

RECURSIVE DropTrailingEmpty(_)
DropTrailingEmpty(ps) ==
    IF Len(ps) > 1 /\ ps[Len(ps)] = <<>>
    THEN DropTrailingEmpty(SubSeq(ps, 1, Len(ps) - 1))
    ELSE ps

\* message.toString().trim().split(' '), on the pieces of the payload:
\* trim removes the leading and trailing spaces, the empty pieces at both ends
SplitTrimmed(raw) == DropTrailingEmpty(DropLeadingEmpty(raw))

\* the number of whitespace-delimited fields of the payload
FieldCount(raw) == Cardinality({i \in DOMAIN raw : raw[i] # <<>>})

---------------------------------------------------------------------------
(* The collections *)

\* AlarmSchema: what validation lets save() store
ValidAlarm(doc) ==
    /\ doc.timestamp.valid
    /\ doc.mac_address # <<>>
    /\ doc.ip_address # <<>>
    /\ ~doc.status.nan

\* the stored form of a valid document
StoredAlarm(doc, id) ==
    [id |-> id,
     timestamp |-> doc.timestamp.t,
     stop_timestamp |-> IF doc.stop_timestamp = Null THEN Null
                        ELSE Some(doc.stop_timestamp[1].t),
     mac_address |-> doc.mac_address,
     ip_address |-> doc.ip_address,
     status |-> doc.status.val,
     active |-> doc.active,
     serial |-> doc.serial]

\* Device.findOne({ mac_address }): the first matching document, or null
DeviceFindOne(dev, mac) ==
    LET hits == {i \in DOMAIN dev : dev[i].mac_address = mac}
    IN  IF hits = {} THEN Null
        ELSE Some(dev[CHOOSE i \in hits : \A j \in hits : i <= j])

\* DeviceUpsert inserting without looking for the MAC
DeviceInsert(dev, mac, serial) ==
    Append(dev, [mac_address |-> mac, serial |-> serial])

\* Device.findOneAndUpdate({ mac_address }, { serial }, { upsert: true })
DeviceUpsert(dev, mac, serial) ==
    LET hits == {i \in DOMAIN dev : dev[i].mac_address = mac}
        first == CHOOSE i \in hits : \A j \in hits : i <= j
    IN  IF hits = {} THEN Append(dev, [mac_address |-> mac, serial |-> serial])
        ELSE [dev EXCEPT ![first].serial = serial]

\* the filter { mac_address: mac, ip_address: ip, active: true }
ActiveOf(doc, mac, ip) ==
    doc.mac_address = mac /\ doc.ip_address = ip /\ doc.active

\* CloseActive with the filter { mac_address: mac, ip_address: ip }: the
\* documents that are closed already are written again
CloseAll(log, mac, ip, stopTime) ==
    [i \in DOMAIN log |->
        IF log[i].mac_address = mac /\ log[i].ip_address = ip
        THEN [log[i] EXCEPT !.active = FALSE, !.stop_timestamp = Some(stopTime)]
        ELSE log[i]]

\* CloseActive as updateOne: only the first matching document is closed
CloseFirstActive(log, mac, ip, stopTime) ==
    LET hits == {i \in DOMAIN log : ActiveOf(log[i], mac, ip)}
    IN  [i \in DOMAIN log |->
            IF i \in hits /\ \A j \in hits : i <= j
            THEN [log[i] EXCEPT !.active = FALSE, !.stop_timestamp = Some(stopTime)]
            ELSE log[i]]

\* AlarmLog.updateMany(filter, { $set: { active: false, stop_timestamp } })
CloseActive(log, mac, ip, stopTime) ==
    [i \in DOMAIN log |->
        IF ActiveOf(log[i], mac, ip)
        THEN [log[i] EXCEPT !.active = FALSE, !.stop_timestamp = Some(stopTime)]
        ELSE log[i]]

\* BackfillSerial with the filter { mac_address: mac, serial: null }: only
\* the documents that have no serial yet are written
BackfillMissingSerial(log, mac, serial) ==
    [i \in DOMAIN log |->
        IF log[i].mac_address = mac /\ log[i].serial = Null
        THEN [log[i] EXCEPT !.serial = Some(serial)]
        ELSE log[i]]

\* AlarmLog.updateMany({ mac_address: mac }, { $set: { serial } })
BackfillSerial(log, mac, serial) ==
    [i \in DOMAIN log |->
        IF log[i].mac_address = mac THEN [log[i] EXCEPT !.serial = Some(serial)]
        ELSE log[i]]

\* result.modifiedCount: the documents the update changed
ModifiedCount(before, after) ==
    Cardinality({i \in DOMAIN before : before[i] # after[i]})

---------------------------------------------------------------------------
(* The record of the last operation *)

NoOperation ==
    [op |-> "none", afterFailure |-> FALSE, accepted |-> FALSE, nfields |-> 0,
     integers |-> FALSE, mac |-> <<>>, ip |-> <<>>, flag |-> NaN, code |-> NaN,
     time |-> InvalidDate, serial |-> <<>>, calls |-> <<>>, error |-> "",
     modifiedCount |-> 0, status |-> 0, updatedLogs |-> 0,
     query |-> <<>>, result |-> <<>>]

---------------------------------------------------------------------------
(* client.on('message'): one message handled from its arrival to its end. *)
(* fail names the storage call that rejects, if the handler reaches it.    *)

StorageCalls == {"findOne", "updateMany", "save"}

\* handleAlarmClear({ mac, ip, stopTime }): the bulk update; it throws when
\* the call fails or when stopTime is an invalid Date (the update's cast)
HandleAlarmClear(log, mac, ip, stopTime, fail) ==
    IF fail = "updateMany" \/ ~stopTime.valid
    THEN [ok |-> FALSE, log |-> log, modifiedCount |-> 0]
    ELSE LET closed == CloseActive(log, mac, ip, stopTime.t)
         IN  [ok |-> TRUE, log |-> closed, modifiedCount |-> ModifiedCount(log, closed)]

\* Save that skips the insert when a document of the same device and status
\* is active
SaveUnlessActive(log, id, doc, fail) ==
    IF fail = "save" \/ ~ValidAlarm(doc)
    THEN [ok |-> FALSE, log |-> log, id |-> id]
    ELSE IF \E i \in DOMAIN log :
                /\ ActiveOf(log[i], doc.mac_address, doc.ip_address)
                /\ log[i].status = doc.status.val
    THEN [ok |-> TRUE, log |-> log, id |-> id]
    ELSE [ok |-> TRUE, log |-> Append(log, StoredAlarm(doc, id)), id |-> id + 1]

\* new AlarmLog(doc).save(): validation, then the insert
Save(log, id, doc, fail) ==
    IF fail = "save" \/ ~ValidAlarm(doc)
    THEN [ok |-> FALSE, log |-> log, id |-> id]
    ELSE [ok |-> TRUE, log |-> Append(log, StoredAlarm(doc, id)), id |-> id + 1]

\* NewClearLog without its stop_timestamp
NewClearLogNoStop(time, mac, ip, code, serial) ==
    [timestamp |-> time, stop_timestamp |-> Null, mac_address |-> mac,
     ip_address |-> ip, status |-> code, active |-> FALSE, serial |-> serial]

\* the document of a clearance event (flag 0)
NewClearLog(time, mac, ip, code, serial) ==
    [timestamp |-> time, stop_timestamp |-> Some(time), mac_address |-> mac,
     ip_address |-> ip, status |-> code, active |-> FALSE, serial |-> serial]

\* the document of a raised alarm (flag 1, code > 0)
NewLog(time, mac, ip, code, serial) ==
    [timestamp |-> time, stop_timestamp |-> Null, mac_address |-> mac,
     ip_address |-> ip, status |-> code, active |-> TRUE, serial |-> serial]

\* Reconcile with the code 0 test of a clearance made before the bulk update
ReconcileCodeFirst(log, id, time, mac, ip, flag, code, serial, fail) ==
    IF StrictEq(flag, 0) THEN
        LET cleared == HandleAlarmClear(log, mac, ip, time, fail)
            saved   == Save(cleared.log, id, NewClearLog(time, mac, ip, code, serial), fail)
        IN  IF StrictEq(code, 0)
            THEN [log |-> log, id |-> id, calls |-> <<>>, error |-> "", modifiedCount |-> 0]
            ELSE IF ~cleared.ok
            THEN [log |-> log, id |-> id, calls |-> <<"updateMany">>,
                  error |-> "updateMany", modifiedCount |-> 0]
            ELSE [log |-> saved.log, id |-> saved.id, calls |-> <<"updateMany", "save">>,
                  error |-> IF saved.ok THEN "" ELSE "save",
                  modifiedCount |-> cleared.modifiedCount]
    ELSE IF StrictEq(flag, 1) /\ Greater(code, 0) THEN
        LET saved == Save(log, id, NewLog(time, mac, ip, code, serial), fail)
        IN  [log |-> saved.log, id |-> saved.id, calls |-> <<"save">>,
             error |-> IF saved.ok THEN "" ELSE "save", modifiedCount |-> 0]
    ELSE [log |-> log, id |-> id, calls |-> <<>>, error |-> "", modifiedCount |-> 0]

\* the body of the try block, once Device.findOne has answered
Reconcile(log, id, time, mac, ip, flag, code, serial, fail) ==
    IF StrictEq(flag, 0) THEN
        LET cleared == HandleAlarmClear(log, mac, ip, time, fail)
            saved   == Save(cleared.log, id, NewClearLog(time, mac, ip, code, serial), fail)
        IN  IF ~cleared.ok
            THEN [log |-> log, id |-> id, calls |-> <<"updateMany">>,
                  error |-> "updateMany", modifiedCount |-> 0]
            ELSE IF StrictEq(code, 0)
            THEN [log |-> cleared.log, id |-> id, calls |-> <<"updateMany">>,
                  error |-> "", modifiedCount |-> cleared.modifiedCount]
            ELSE [log |-> saved.log, id |-> saved.id, calls |-> <<"updateMany", "save">>,
                  error |-> IF saved.ok THEN "" ELSE "save",
                  modifiedCount |-> cleared.modifiedCount]
    ELSE IF StrictEq(flag, 1) /\ Greater(code, 0) THEN
        LET saved == Save(log, id, NewLog(time, mac, ip, code, serial), fail)
        IN  [log |-> saved.log, id |-> saved.id, calls |-> <<"save">>,
             error |-> IF saved.ok THEN "" ELSE "save", modifiedCount |-> 0]
    ELSE [log |-> log, id |-> id, calls |-> <<>>, error |-> "", modifiedCount |-> 0]

\* Caught with the registry lookup awaited before the try block
CaughtAfterLookup(call) == call \in {"updateMany", "save"}

\* the catch of the handler: the storage calls whose rejection it catches
\* (all three are awaited inside the try block)
Caught(call) == call \in {"findOne", "updateMany", "save"}

\* the text of a decimal integer: an optional sign and digits, nothing else
IsIntegerText(s) ==
    LET body == IF s # <<>> /\ Head(s) \in {"-", "+"} THEN Tail(s) ELSE s
    IN  body # <<>> /\ DigitPrefixLen(body) = Len(body)

\* the whole handler: what it leaves in the alarm collection, its record,
\* and whether an error escaped it
OnMessage(log, dev, id, raw, fail, afterFailure) ==
    LET parts == SplitTrimmed(raw)
        mac   == parts[3]
        ip    == parts[4]
        flag  == ParseInt(parts[5])
        code  == ParseInt(parts[6])
        time  == MakeDate(parts[1], parts[2])
        found == DeviceFindOne(dev, mac)
        currentSerial == IF found = Null THEN Null ELSE Some(found[1].serial)
        r     == Reconcile(log, id, time, mac, ip, flag, code, currentSerial, fail)
        seen  == [NoOperation EXCEPT !.op = "message", !.afterFailure = afterFailure,
                                     !.nfields = FieldCount(raw)]
        read  == [seen EXCEPT !.accepted = TRUE, !.mac = mac, !.ip = ip,
                              !.integers = IsIntegerText(parts[5]) /\ IsIntegerText(parts[6]),
                              !.flag = flag, !.code = code, !.time = time]
    IN  IF Len(parts) < 7
        THEN [log |-> log, id |-> id, last |-> seen, uncaught |-> FALSE]
        ELSE IF fail = "findOne"
        THEN [log |-> log, id |-> id,
              last |-> [read EXCEPT !.calls = <<"findOne">>, !.error = "findOne"],
              uncaught |-> ~Caught("findOne")]
        ELSE [log |-> r.log, id |-> r.id,
              last |-> [read EXCEPT !.serial = currentSerial,
                                    !.calls = <<"findOne">> \o r.calls,
                                    !.error = r.error,
                                    !.modifiedCount = r.modifiedCount],
              uncaught |-> r.error # "" /\ ~Caught(r.error)]

---------------------------------------------------------------------------
(* app.post('/api/serial'): the registration of a serial for a MAC address *)

RegisterCalls == {"findOneAndUpdate", "updateMany"}

RegisterSerial(log, dev, mac, serial, fail, afterFailure) ==
    LET upserted == DeviceUpsert(dev, mac, serial)
        filled   == BackfillSerial(log, mac, serial)
        asked    == [NoOperation EXCEPT !.op = "registerSerial",
                                        !.afterFailure = afterFailure,
                                        !.mac = mac, !.serial = serial]
    IN  IF mac = <<>> \/ serial = <<>>
        THEN [log |-> log, dev |-> dev, last |-> [asked EXCEPT !.status = 400]]
        ELSE IF fail = "findOneAndUpdate"
        THEN [log |-> log, dev |-> dev,
              last |-> [asked EXCEPT !.status = 500, !.calls = <<"findOneAndUpdate">>,
                                     !.error = "findOneAndUpdate"]]
        ELSE IF fail = "updateMany"
        THEN [log |-> log, dev |-> upserted,
              last |-> [asked EXCEPT !.status = 500,
                                     !.calls = <<"findOneAndUpdate", "updateMany">>,
                                     !.error = "updateMany"]]
        ELSE [log |-> filled, dev |-> upserted,
              last |-> [asked EXCEPT !.status = 200,
                                     !.calls = <<"findOneAndUpdate", "updateMany">>,
                                     !.updatedLogs = ModifiedCount(log, filled)]]

---------------------------------------------------------------------------
(* app.get('/api/logs') and app.get('/api/logs/filter'): the queries       *)

\* String.prototype.toLowerCase, on the capital letters of the model
ToLowerCase(c) ==
    CASE c = "A" -> "a" [] c = "E" -> "e" [] c = "F" -> "f" [] c = "L" -> "l"
      [] c = "M" -> "m" [] c = "R" -> "r" [] c = "S" -> "s" [] c = "T" -> "t"
      [] c = "U" -> "u" [] OTHER -> c

LowerText(s) == [i \in DOMAIN s |-> ToLowerCase(s[i])]

\* new RegExp(source, 'i') throws a SyntaxError for a group that is opened
\* and never closed (the model has no closing parenthesis)
IsPattern(source) == \A i \in DOMAIN source : source[i] # "("

\* RegExp(source, 'i') matches text: the pattern occurs somewhere in the
\* text, a dot standing for any one character, letters compared without case
RegExpTest(source, text) ==
    \E k \in 0..(Len(text) - Len(source)) :
        \A j \in DOMAIN source :
            source[j] = "." \/ ToLowerCase(source[j]) = ToLowerCase(text[k + j])

\* the truthiness of a query parameter: undefined and '' are falsy
Truthy(param) == param # Null /\ param[1] # <<>>

\* the query object built from req.query
BuildQuery(mac, ip, active) ==
    [mac_address |-> IF Truthy(mac) THEN mac ELSE Null,
     ip_address  |-> IF Truthy(ip) THEN ip ELSE Null,
     active      |-> IF active # Null
                     THEN Some(LowerText(active[1]) = <<"t", "r", "u", "e">>)
                     ELSE Null]

\* Object.keys(query).length
QueryKeys(query) ==
    Cardinality({f \in {"mac_address", "ip_address", "active"} : query[f] # Null})

\* a document matches the query: every key of the query holds of it
Matches(doc, query) ==
    /\ query.mac_address # Null => RegExpTest(query.mac_address[1], doc.mac_address)
    /\ query.ip_address # Null => doc.ip_address = query.ip_address[1]
    /\ query.active # Null => doc.active = query.active[1]

\* .sort({ timestamp: -1 }): newest first, documents of one timestamp in
\* the order of their insertion
RECURSIVE SortNewestFirst(_)
SortNewestFirst(docs) ==
    IF docs = <<>> THEN <<>>
    ELSE LET first == CHOOSE i \in DOMAIN docs :
                          \A j \in DOMAIN docs :
                              \/ docs[j].timestamp < docs[i].timestamp
                              \/ (docs[j].timestamp = docs[i].timestamp /\ i <= j)
             rest  == [k \in 1..(Len(docs) - 1) |->
                          IF k < first THEN docs[k] ELSE docs[k + 1]]
         IN  <<docs[first]>> \o SortNewestFirst(rest)

\* .select('mac_address ip_address timestamp status active serial -_id')
SelectAll(doc) ==
    [mac_address |-> doc.mac_address, ip_address |-> doc.ip_address,
     timestamp |-> doc.timestamp, status |-> doc.status, active |-> doc.active,
     serial |-> doc.serial]

\* .select('mac_address ip_address timestamp stop_timestamp status active
\* serial -_id')
SelectFiltered(doc) ==
    [mac_address |-> doc.mac_address, ip_address |-> doc.ip_address,
     timestamp |-> doc.timestamp, stop_timestamp |-> doc.stop_timestamp,
     status |-> doc.status, active |-> doc.active, serial |-> doc.serial]

SelectEach(docs, all) ==
    [i \in DOMAIN docs |-> IF all THEN SelectAll(docs[i]) ELSE SelectFiltered(docs[i])]

\* AlarmLog.find(query): the matching documents, in the order of insertion
Find(log, query) == SelectSeq(log, LAMBDA doc : Matches(doc, query))

\* GET /api/logs: every record, newest first; fail is TRUE when find rejects
ListAll(log, fail) ==
    LET asked == [NoOperation EXCEPT !.op = "listAll", !.calls = <<"find">>]
    IN  IF fail THEN [asked EXCEPT !.status = 500, !.error = "find"]
        ELSE [asked EXCEPT !.status = 200,
                           !.result = SelectEach(SortNewestFirst(log), TRUE)]

\* GET /api/logs/filter?mac=&ip=&active=; error "RegExp" when the RegExp
\* constructor throws, which it does before the try block (status 0: the
\* handler has sent no response)
ListFiltered(log, mac, ip, active, fail) ==
    LET query == BuildQuery(mac, ip, active)
        asked == [NoOperation EXCEPT !.op = "listFiltered",
                                     !.query = [mac |-> mac, ip |-> ip, active |-> active]]
    IN  IF Truthy(mac) /\ ~IsPattern(mac[1])
        THEN [asked EXCEPT !.error = "RegExp"]
        ELSE IF QueryKeys(query) = 0
        THEN [asked EXCEPT !.status = 400]
        ELSE IF fail
        THEN [asked EXCEPT !.status = 500, !.calls = <<"find">>, !.error = "find"]
        ELSE [asked EXCEPT !.status = 200, !.calls = <<"find">>,
                           !.result = SelectEach(SortNewestFirst(Find(log, query)), FALSE)]

---------------------------------------------------------------------------

(* createTTLIndex: the index { timestamp: 1 } with expireAfterSeconds, on   *)
(* which the storage engine's expiry pass removes documents                 *)

thirtyDaysInSeconds == 2592000

SecondsPerHour == 3600

\* the document's timestamp is more than expireAfterSeconds before the clock
Expired(doc, clock) ==
    doc.timestamp * SecondsPerHour + thirtyDaysInSeconds < clock * SecondsPerHour

\* ExpirePass on an index with partialFilterExpression { active: false }
ExpireInactive(log, clock) ==
    SelectSeq(log, LAMBDA doc : ~(Expired(doc, clock) /\ ~doc.active))

\* one pass of the expiry over the collection
ExpirePass(log, clock) == SelectSeq(log, LAMBDA doc : ~Expired(doc, clock))

---------------------------------------------------------------------------

(* The inputs *)

Day == <<"d", "1">>

\* alarms are raised at hour 1 and cleared at hour 5
RaiseHour == <<"t", "1">>

ClearHour == <<"t", "5">>

Mac1 == <<"m", "1">>

Mac2 == <<"m", "2">>

Ip1 == <<"1", ".", "1">>

Ip2 == <<"1", ".", "2">>

\* the devices that publish: two addresses of one MAC, and another MAC
Devices == {<<Mac1, Ip1>>, <<Mac1, Ip2>>, <<Mac2, Ip1>>}

Counter == <<"1">>

\* the payload of the message format
Payload(dv, flag, code) ==
    <<Day, IF flag = <<"0">> THEN ClearHour ELSE RaiseHour, dv[1], dv[2], flag, code, Counter>>

\* flag 0 or 1 and code 0 or 2 from the first device; the other devices
\* raise alarms and never clear them
Regular ==
    {Payload(<<Mac1, Ip1>>, f, c) : f \in {<<"0">>, <<"1">>}, c \in {<<"0">>, <<"2">>}}
    \cup {Payload(dv, <<"1">>, <<"2">>) : dv \in Devices}

\* other flag and code texts, from the first device: a flag that is neither
\* 0 nor 1, texts that are no integer, a negative code, digits followed by
\* a letter, and an empty code piece (two spaces after the flag, six fields)
OddFlagCode ==
    {<<<<"2">>, <<"2">>>>, <<<<"z">>, <<"2">>>>, <<<<"0">>, <<"z">>>>,
     <<<<"1">>, <<"z">>>>, <<<<"0">>, <<"-", "1">>>>, <<<<"1">>, <<"-", "1">>>>,
     <<<<"0">>, <<>>>>, <<<<"1">>, <<"2", "z">>>>}

Odd == {Payload(<<Mac1, Ip1>>, fc[1], fc[2]) : fc \in OddFlagCode}

\* the counter missing (six pieces), a space before and after the payload,
\* and the flag missing with two spaces after the date (six fields in
\* seven pieces, every field but the date read from its neighbour)
Misshapen ==
    {SubSeq(Payload(<<Mac1, Ip1>>, <<"1">>, <<"2">>), 1, 6),
     SubSeq(Payload(<<Mac1, Ip1>>, <<"0">>, <<"2">>), 1, 6),
     <<<<>>>> \o Payload(<<Mac1, Ip1>>, <<"1">>, <<"2">>) \o <<<<>>>>,
     <<Day, <<>>, ClearHour, Mac1, Ip1, <<"2">>, Counter>>}

Payloads == Regular \cup Odd \cup Misshapen

\* a payload and the storage call that fails while it is handled
Deliveries ==
    (Payloads \X {"none"}) \cup (Regular \X StorageCalls)

\* the body of a registration request: the MAC and the serial, either of
\* which may be missing
RequestMacs == {Mac1, <<>>}

RequestSerials == {<<"s", "1">>, <<"s", "2">>, <<>>}

---------------------------------------------------------------------------
(* The state machine *)

\* the server once it has started: MongoDB is connected, the MQTT client is
\* connected and subscribed to the topic, both collections are empty
Init ==
    /\ alarm = <<>>
    /\ device = <<>>
    /\ nextId = 1
    /\ up = TRUE
    /\ last = NoOperation
    /\ now = 0
    /\ handlers = <<>>
    /\ mongoose = "connected"
    /\ client = [state |-> "subscribed", connects |-> 1]
    /\ broker = TRUE

\* one MQTT message of the given deliveries, handled to its end
MessageFrom(deliveries) ==
    /\ up
    /\ last.op = "none"
    /\ \E dl \in deliveries :
        LET r == OnMessage(alarm, device, nextId, dl[1], dl[2], last.afterFailure)
        IN  /\ Len(r.log) <= MaxRecords
            /\ r.id <= MaxRecords + 1
            /\ alarm' = r.log
            /\ nextId' = r.id
            /\ last' = r.last
            /\ up' = ~r.uncaught
            /\ UNCHANGED <<device, now, handlers, mongoose, client, broker>>

\* one MQTT message, handled to its end
Message == MessageFrom(Deliveries)

\* one POST /api/serial request, handled to its response
Register ==
    /\ up
    /\ last.op = "none"
    /\ \E mac \in RequestMacs, serial \in RequestSerials,
          fail \in RegisterCalls \cup {"none"} :
        LET r == RegisterSerial(alarm, device, mac, serial, fail, last.afterFailure)
        IN  /\ alarm' = r.log
            /\ device' = r.dev
            /\ last' = r.last
            /\ UNCHANGED <<nextId, up, now, handlers, mongoose, client, broker>>

\* the handler has returned: the process turns to its next event, after a
\* failure when a storage call of the handler was rejected
Settle ==
    /\ last.op # "none"
    /\ last' = [NoOperation EXCEPT !.afterFailure = (last.error # "")]
    /\ UNCHANGED <<alarm, device, nextId, up, now, handlers, mongoose, client, broker>>

Next == Message \/ Register \/ Settle

Spec == Init /\ [][Next]_vars

---------------------------------------------------------------------------
(* The queries and the expiry: the server with its read routes, the clock  *)
(* of the storage engine and the expiry pass.                               *)

\* the messages that fill the log for the queries: an alarm raised and
\* cleared by the first device, alarms raised by the other two
QueryFeed ==
    ({Payload(<<Mac1, Ip1>>, <<"0">>, <<"2">>)}
        \cup {Payload(dv, <<"1">>, <<"2">>) : dv \in Devices}) \X {"none"}

\* the mac parameter: absent, empty, a whole MAC in capitals, a part of a
\* MAC, a part with a dot, an opening parenthesis
QueryMacs ==
    {Null, Some(<<>>), Some(<<"M", "1">>), Some(<<"2">>), Some(<<"m", ".">>),
     Some(<<"(">>)}

QueryIps == {Null, Some(Ip1)}

QueryActives == {Null, Some(<<"t", "r", "u", "e">>), Some(<<"F", "A", "L", "S", "E">>)}

\* the instants the clock is read at: one hour after the retention window of
\* the alarms raised has passed, and one hour after that of the clearances
Instants ==
    {MakeDate(Day, hour).t + (thirtyDaysInSeconds \div SecondsPerHour) + 1 :
        hour \in {RaiseHour, ClearHour}}

\* the messages of the feed, handled one at a time
Feed == MessageFrom(QueryFeed)

\* one GET /api/logs request
LogsAll ==
    /\ up
    /\ last.op = "none"
    /\ \E fail \in BOOLEAN : last' = ListAll(alarm, fail)
    /\ UNCHANGED <<alarm, device, nextId, up, now, handlers, mongoose, client, broker>>

\* one GET /api/logs/filter request.  An error thrown before the try block
\* rejects the promise of the async handler: the framework answers 500, or
\* nothing answers and the request stays pending, or the process exits on
\* the unhandled rejection, as the versions of the framework and of the
\* runtime have it.
LogsFilter ==
    /\ up
    /\ last.op = "none"
    /\ \E mac \in QueryMacs, ip \in QueryIps, active \in QueryActives,
          fail \in BOOLEAN, escaped \in {"answered", "pending", "exit"} :
        LET r == ListFiltered(alarm, mac, ip, active, fail)
        IN  /\ r.error # "RegExp" => escaped = "answered"
            /\ last' = IF r.error = "RegExp" /\ escaped = "answered"
                       THEN [r EXCEPT !.status = 500]
                       ELSE r
            /\ up' = ~(r.error = "RegExp" /\ escaped = "exit")
    /\ UNCHANGED <<alarm, device, nextId, now, handlers, mongoose, client, broker>>

\* the clock of the storage engine moves on
Tick ==
    /\ last.op = "none"
    /\ \E t \in Instants : t > now /\ now' = t
    /\ UNCHANGED <<alarm, device, nextId, up, last, handlers, mongoose, client, broker>>

\* the background expiry pass of the storage engine, on the TTL index; its
\* record holds the documents it removed
Expire ==
    /\ last.op = "none"
    /\ alarm' = ExpirePass(alarm, now)
    /\ last' = [NoOperation EXCEPT !.op = "expire",
                                   !.afterFailure = last.afterFailure,
                                   !.result = SelectSeq(alarm, LAMBDA doc : Expired(doc, now))]
    /\ UNCHANGED <<device, nextId, up, now, handlers, mongoose, client, broker>>

NextQuery == Feed \/ LogsAll \/ LogsFilter \/ Tick \/ Expire \/ Settle

SpecQuery == Init /\ [][NextQuery]_vars

---------------------------------------------------------------------------

(* The handlers as the event loop runs them: an async handler runs to its  *)
(* first await when its event arrives and resumes when the awaited storage *)
(* call has answered, so that the storage calls of the handlers in flight  *)
(* interleave.  A step applies the awaited call to the collections and     *)
(* runs the handler to its next await or to its end.                        *)

\* at most this many handlers are started
MaxHandlers == 3

\* a handler in flight or ended: pc names the storage call it awaits, calls
\* counts the storage calls it has made, created is the _id of the document
\* it has saved (0: none)
StartedHandler ==
    [op |-> "message", pc |-> "done", mac |-> <<>>, ip |-> <<>>, flag |-> NaN,
     code |-> NaN, time |-> InvalidDate, serial |-> <<>>, calls |-> 0,
     created |-> 0, error |-> "", status |-> 0]

\* client.on('message'), to its first await (lines 105-130)
StartMessage(raw) ==
    LET parts == SplitTrimmed(raw)
    IN  IF Len(parts) < 7 THEN StartedHandler
        ELSE [StartedHandler EXCEPT !.pc = "findOne", !.mac = parts[3], !.ip = parts[4],
                                    !.flag = ParseInt(parts[5]),
                                    !.code = ParseInt(parts[6]),
                                    !.time = MakeDate(parts[1], parts[2])]

\* app.post('/api/serial'), to its first await (lines 279-288)
StartRegister(mac, serial) ==
    LET asked == [StartedHandler EXCEPT !.op = "registerSerial", !.mac = mac,
                                        !.serial = serial]
    IN  IF mac = <<>> \/ serial = <<>> THEN [asked EXCEPT !.status = 400]
        ELSE [asked EXCEPT !.pc = "findOneAndUpdate"]

\* the handler h resumes: the call it awaits answers, applied to the
\* collections log and dev, and the handler runs on to its next await
Resume(h, log, dev, id) ==
    LET same == [h |-> h, log |-> log, dev |-> dev, id |-> id]
        made == [h EXCEPT !.calls = h.calls + 1]
    IN  CASE h.pc = "findOne" ->
                LET found == DeviceFindOne(dev, h.mac)
                    got   == [made EXCEPT !.serial = IF found = Null THEN Null
                                                     ELSE Some(found[1].serial)]
                IN  [same EXCEPT !.h =
                        IF StrictEq(h.flag, 0) THEN [got EXCEPT !.pc = "updateMany"]
                        ELSE IF StrictEq(h.flag, 1) /\ Greater(h.code, 0)
                        THEN [got EXCEPT !.pc = "save"]
                        ELSE [got EXCEPT !.pc = "done"]]
          [] h.pc = "updateMany" ->
                LET cleared == HandleAlarmClear(log, h.mac, h.ip, h.time, "none")
                IN  IF ~cleared.ok
                    THEN [same EXCEPT !.h = [made EXCEPT !.pc = "done", !.error = "updateMany"]]
                    ELSE [same EXCEPT !.log = cleared.log,
                                      !.h = IF StrictEq(h.code, 0)
                                            THEN [made EXCEPT !.pc = "done"]
                                            ELSE [made EXCEPT !.pc = "save"]]
          [] h.pc = "save" ->
                LET doc   == IF StrictEq(h.flag, 0)
                             THEN NewClearLog(h.time, h.mac, h.ip, h.code, h.serial)
                             ELSE NewLog(h.time, h.mac, h.ip, h.code, h.serial)
                    saved == Save(log, id, doc, "none")
                IN  IF ~saved.ok
                    THEN [same EXCEPT !.h = [made EXCEPT !.pc = "done", !.error = "save"]]
                    ELSE [same EXCEPT !.log = saved.log, !.id = saved.id,
                                      !.h = [made EXCEPT !.pc = "done", !.created = id]]
          [] h.pc = "findOneAndUpdate" ->
                [same EXCEPT !.dev = DeviceUpsert(dev, h.mac, h.serial),
                             !.h = [made EXCEPT !.pc = "backfill"]]
          [] h.pc = "backfill" ->
                [same EXCEPT !.log = BackfillSerial(log, h.mac, h.serial),
                             !.h = [made EXCEPT !.pc = "done", !.status = 200]]
          [] OTHER -> same

\* a second clearance, later than the first
LateHour == <<"t", "9">>

\* the events of the first device: an alarm raised, cleared, and cleared
\* again later
AsyncPayloads ==
    {Payload(<<Mac1, Ip1>>, <<"1">>, <<"2">>),
     Payload(<<Mac1, Ip1>>, <<"0">>, <<"2">>),
     <<Day, LateHour, Mac1, Ip1, <<"0">>, <<"2">>, Counter>>}

\* a 'message' event is emitted: its handler starts
Arrive ==
    /\ up
    /\ Len(handlers) < MaxHandlers
    /\ \E raw \in AsyncPayloads : handlers' = Append(handlers, StartMessage(raw))
    /\ UNCHANGED <<alarm, device, nextId, up, last, now, mongoose, client, broker>>

\* a POST /api/serial request arrives: its handler starts
Request ==
    /\ up
    /\ Len(handlers) < MaxHandlers
    /\ \E serial \in RequestSerials \ {<<>>} :
          handlers' = Append(handlers, StartRegister(Mac1, serial))
    /\ UNCHANGED <<alarm, device, nextId, up, last, now, mongoose, client, broker>>

\* the storage call a handler awaits answers
Answer ==
    \E k \in DOMAIN handlers :
        /\ handlers[k].pc # "done"
        /\ LET r == Resume(handlers[k], alarm, device, nextId)
           IN  /\ handlers' = [handlers EXCEPT ![k] = r.h]
               /\ alarm' = r.log
               /\ device' = r.dev
               /\ nextId' = r.id
        /\ UNCHANGED <<up, last, now, mongoose, client, broker>>

NextAsync == Arrive \/ Request \/ Answer

SpecAsync == Init /\ [][NextAsync]_vars

---------------------------------------------------------------------------

(* The start of the server and the MQTT connection: mongoose.connect, then *)
(* setupMqttClient; the client connects, subscribes in its 'connect'       *)
(* handler, and tries again a reconnectPeriod after a connection closed.   *)
(* The states of the client: "absent" (setupMqttClient has not run),       *)
(* "connecting", "subscribing" (connected, the subscribe request sent),    *)
(* "subscribed", "refused" (the subscribe callback got an error),          *)
(* "connected" (connected, no subscribe request made), "disconnected".     *)

\* the connections counted in client.connects, which counts no further
MaxConnects == 2

\* mqtt.connect(BROKER_URL, options): the client starts connecting
MqttConnect == [state |-> "connecting", connects |-> 0]

\* OnConnect with the subscription made once, on the first connection
OnFirstConnect(c) ==
    [state |-> IF c.connects = 0 THEN "subscribing" ELSE "connected",
     connects |-> IF c.connects < MaxConnects THEN c.connects + 1 ELSE c.connects]

\* client.on('connect'): every connection subscribes to the topic
OnConnect(c) ==
    [state |-> "subscribing",
     connects |-> IF c.connects < MaxConnects THEN c.connects + 1 ELSE c.connects]

\* the messages the broker publishes on the topic: an alarm of the first
\* device raised, and cleared
MqttFeed ==
    {Payload(<<Mac1, Ip1>>, f, <<"2">>) : f \in {<<"0">>, <<"1">>}} \X {"none"}

\* the server at its start: mongoose.connect is pending, no MQTT client yet
InitStart ==
    /\ alarm = <<>>
    /\ device = <<>>
    /\ nextId = 1
    /\ up = TRUE
    /\ last = NoOperation
    /\ now = 0
    /\ handlers = <<>>
    /\ mongoose = "connecting"
    /\ client = [state |-> "absent", connects |-> 0]
    /\ broker \in BOOLEAN

\* mongoose.connect resolves: the TTL index is declared, the client set up
MongoConnected ==
    /\ mongoose = "connecting"
    /\ mongoose' = "connected"
    /\ client' = MqttConnect
    /\ UNCHANGED <<alarm, device, nextId, up, last, now, handlers, broker>>

\* mongoose.connect rejects: the error is logged, nothing else is started
MongoFailed ==
    /\ mongoose = "connecting"
    /\ mongoose' = "failed"
    /\ UNCHANGED <<alarm, device, nextId, up, last, now, handlers, client, broker>>

\* the broker accepts the connection: 'connect' is emitted
ConnAck ==
    /\ client.state = "connecting"
    /\ broker
    /\ client' = OnConnect(client)
    /\ UNCHANGED <<alarm, device, nextId, up, last, now, handlers, mongoose, broker>>

\* the connection attempt fails or times out: 'close' is emitted
ConnectFailed ==
    /\ client.state = "connecting"
    /\ ~broker
    /\ client' = [client EXCEPT !.state = "disconnected"]
    /\ UNCHANGED <<alarm, device, nextId, up, last, now, handlers, mongoose, broker>>

\* the subscribe callback is called without an error
SubAck ==
    /\ client.state = "subscribing"
    /\ broker
    /\ client' = [client EXCEPT !.state = "subscribed"]
    /\ UNCHANGED <<alarm, device, nextId, up, last, now, handlers, mongoose, broker>>

\* the subscribe callback is called with an error, which is logged
SubError ==
    /\ client.state = "subscribing"
    /\ client' = [client EXCEPT !.state = "refused"]
    /\ UNCHANGED <<alarm, device, nextId, up, last, now, handlers, mongoose, broker>>

\* the broker becomes unreachable; an open connection closes ('close')
BrokerDown ==
    /\ broker
    /\ broker' = FALSE
    /\ client' = IF client.state \in {"subscribing", "subscribed", "refused", "connected"}
                 THEN [client EXCEPT !.state = "disconnected"]
                 ELSE client
    /\ UNCHANGED <<alarm, device, nextId, up, last, now, handlers, mongoose>>

\* the broker becomes reachable again
BrokerUp ==
    /\ ~broker
    /\ broker' = TRUE
    /\ UNCHANGED <<alarm, device, nextId, up, last, now, handlers, mongoose, client>>

\* reconnectPeriod after the close, the client connects again
Reconnect ==
    /\ client.state = "disconnected"
    /\ client' = [client EXCEPT !.state = "connecting"]
    /\ UNCHANGED <<alarm, device, nextId, up, last, now, handlers, mongoose, broker>>

\* the broker publishes a message to the subscribed client
Receive ==
    /\ client.state = "subscribed"
    /\ broker
    /\ MessageFrom(MqttFeed)

NextMqtt ==
    \/ MongoConnected \/ MongoFailed \/ ConnAck \/ ConnectFailed \/ SubAck
    \/ SubError \/ BrokerDown \/ BrokerUp \/ Reconnect \/ Receive \/ Settle

\* the reconnect timer fires, and the broker answers the requests it gets
\* while it can be reached
SpecMqtt ==
    /\ InitStart
    /\ [][NextMqtt]_vars
    /\ WF_vars(Reconnect)
    /\ WF_vars(ConnAck)
    /\ WF_vars(SubAck)

---------------------------------------------------------------------------

(* What the claims speak of: the kind of the event a record r of a handled *)
(* message describes, and the effect the event is to have on the log.      *)

\* a message that passed the length check
AcceptedMessage(r) == r.op = "message" /\ r.accepted

\* transition = CLEAR (flag 0)
ClearEvent(r) == AcceptedMessage(r) /\ ~r.flag.nan /\ r.flag.val = 0

\* transition = RAISE (flag 1)
RaiseEvent(r) == AcceptedMessage(r) /\ ~r.flag.nan /\ r.flag.val = 1

CodeZero(r) == ~r.code.nan /\ r.code.val = 0

CodePositive(r) == ~r.code.nan /\ r.code.val > 0

\* the record is one of the event's (deviceMac, deviceIp) and is active
ActiveOfEvent(r, doc) ==
    doc.mac_address = r.mac /\ doc.ip_address = r.ip /\ doc.active = TRUE

\* the log with every active record of the event's pair closed at occurredAt
ClosedAt(r, log) ==
    [i \in DOMAIN log |->
        IF ActiveOfEvent(r, log[i])
        THEN [log[i] EXCEPT !.active = FALSE, !.stop_timestamp = <<r.time.t>>]
        ELSE log[i]]

\* the record a RAISE inserts: active, started at occurredAt, not stopped
RaisedRecord(r, id, serial) ==
    [id |-> id, timestamp |-> r.time.t, stop_timestamp |-> <<>>,
     mac_address |-> r.mac, ip_address |-> r.ip, status |-> r.code.val,
     active |-> TRUE, serial |-> serial]

\* the record a CLEAR inserts: not active, started and stopped at occurredAt
ClearanceRecord(r, id, serial) ==
    [id |-> id, timestamp |-> r.time.t, stop_timestamp |-> <<r.time.t>>,
     mac_address |-> r.mac, ip_address |-> r.ip, status |-> r.code.val,
     active |-> FALSE, serial |-> serial]

\* the bulk update of a CLEAR was made and did not fail
ClearApplied(r) ==
    ClearEvent(r) /\ r.calls # <<>> /\ r.error \notin {"findOne", "updateMany"}

---------------------------------------------------------------------------
(* C1 *)

---------------------------------------------------------------------------
(* C2 *)

\* C2, as stated: handling a CLEAR with code 0 leaves the alarm log
\* unchanged: no record created, no record modified.
C2_ClearZeroLeavesLog ==
    [][(ClearEvent(last') /\ CodeZero(last')) => alarm' = alarm]_vars

\* C2, amended: handling a CLEAR with code 0 creates no record and modifies
\* no record but the active records of its pair, each of which it closes
\* (active = false, stoppedAt = occurredAt) when no storage call fails; the
\* log is unchanged when one fails.
C2_ClearZeroClosesOnly ==
    [][(ClearEvent(last') /\ CodeZero(last')) =>
          alarm' = IF last'.error = "" THEN ClosedAt(last', alarm) ELSE alarm]_vars

\* a CLEAR with code 0 that closed an active record
C2_Witness ==
    ClearEvent(last) /\ CodeZero(last) /\ last.error = "" /\ last.modifiedCount >= 1

---------------------------------------------------------------------------
(* C3 *)

\* C3: handling a CLEAR with code > 0, no storage call failing, closes every
\* record of the pair that was active (active = false, stoppedAt =
\* occurredAt), changes no other record, and inserts exactly one record with
\* active = false, startedAt = stoppedAt = occurredAt and the event's code,
\* whether or not there was a record to close.
C3_ClearClosesAndLogs ==
    [][(ClearEvent(last') /\ CodePositive(last') /\ last'.error = "") =>
          alarm' = Append(ClosedAt(last', alarm),
                          ClearanceRecord(last', nextId, last'.serial))]_vars

\* a CLEAR with code > 0 that closed two active records and was logged
C3_Witness ==
    /\ ClearEvent(last) /\ CodePositive(last) /\ last.error = ""
    /\ last.modifiedCount >= 2
    /\ alarm[Len(alarm)].active = FALSE

---------------------------------------------------------------------------
(* C4 *)

\* what C4 says of a RAISE step: one record appended, active, started at
\* occurredAt, not stopped, with the event's code; the others as they were
RaiseAppends(r, log, newlog, id) ==
    /\ Len(newlog) = Len(log) + 1
    /\ SubSeq(newlog, 1, Len(log)) = log
    /\ \E serial \in {newlog[Len(newlog)].serial} :
          newlog[Len(newlog)] = RaisedRecord(r, id, serial)
    /\ \A i \in DOMAIN log : log[i].id # newlog[Len(newlog)].id

---------------------------------------------------------------------------
(* C5 *)

\* C5: handling a RAISE with code 0 creates no record and modifies none.
C5_RaiseZeroLeavesLog ==
    [][(RaiseEvent(last') /\ CodeZero(last')) => alarm' = alarm]_vars

\* a RAISE with code 0 handled while its device has an active record
C5_Witness ==
    /\ RaiseEvent(last) /\ CodeZero(last)
    /\ \E i \in DOMAIN alarm : ActiveOfEvent(last, alarm[i])

---------------------------------------------------------------------------
(* C6 *)

\* C6: a payload of fewer than 7 whitespace-delimited fields is rejected
\* and leaves the alarm log and the device registry unchanged.
C6_FewFieldsRejected ==
    [][(last'.op = "message" /\ last'.nfields < 7) =>
          (alarm' = alarm /\ device' = device)]_vars

---------------------------------------------------------------------------
(* C7 *)

\* C7: a payload of 7 or more fields whose flag or code is not the text of
\* an integer is rejected: no record is created and none is modified.
C7_NonIntegerRejected ==
    [][(AcceptedMessage(last') /\ last'.nfields >= 7 /\ ~last'.integers) =>
          alarm' = alarm]_vars

---------------------------------------------------------------------------
(* C8 *)

\* C8: a storage failure while an event is handled does not stop ingestion:
\* the process is running after the failed event, and the event handled
\* next has its normal effect on the log (a RAISE with code > 0 inserts its
\* record, a CLEAR closes the active records of its pair and, with
\* code > 0, inserts its record).
C8_FailureDoesNotStopIngestion ==
    [][/\ (last'.op = "message" /\ last'.error # "") => up'
       /\ (last'.afterFailure /\ last'.error = "" /\ last'.time.valid) =>
            /\ (RaiseEvent(last') /\ CodePositive(last')) =>
                  alarm' = Append(alarm, RaisedRecord(last', nextId, last'.serial))
            /\ (ClearEvent(last') /\ CodePositive(last')) =>
                  alarm' = Append(ClosedAt(last', alarm),
                                  ClearanceRecord(last', nextId, last'.serial))
            /\ (ClearEvent(last') /\ CodeZero(last')) =>
                  alarm' = ClosedAt(last', alarm)]_vars

\* a CLEAR with code > 0 handled right after an event whose storage call
\* failed: it closed an active record and was logged
C8_Witness ==
    /\ last.afterFailure /\ last.error = ""
    /\ ClearEvent(last) /\ CodePositive(last)
    /\ last.modifiedCount >= 1
    /\ up

---------------------------------------------------------------------------
(* C9 *)

\* C9: when the registry lookup fails while a RAISE or a CLEAR with
\* code > 0 is handled, the event still has its full effect on the log,
\* with serial unset.
C9_LookupFailureIsSerialAbsent ==
    [][(last'.op = "message" /\ last'.error = "findOne" /\ last'.time.valid
            /\ CodePositive(last')) =>
          /\ RaiseEvent(last') =>
                alarm' = Append(alarm, RaisedRecord(last', nextId, <<>>))
          /\ ClearEvent(last') =>
                alarm' = Append(ClosedAt(last', alarm),
                                ClearanceRecord(last', nextId, <<>>))]_vars

---------------------------------------------------------------------------
(* C10 *)

\* a registration that answered with success
Registered(r) == r.op = "registerSerial" /\ r.status = 200

\* C10: after registerSerial(mac, serial) has succeeded the registry holds
\* exactly one entry for mac, with that serial, and every record of the log
\* with that deviceMac has that serial; a second call with the same
\* arguments leaves the registry and the log as they are.
C10_RegisterIdempotent ==
    Registered(last) =>
        /\ Cardinality({i \in DOMAIN device : device[i].mac_address = last.mac}) = 1
        /\ \A i \in DOMAIN device :
              device[i].mac_address = last.mac => device[i].serial = last.serial
        /\ \A i \in DOMAIN alarm :
              alarm[i].mac_address = last.mac => alarm[i].serial = <<last.serial>>
        /\ LET again == RegisterSerial(alarm, device, last.mac, last.serial, "none", FALSE)
           IN  again.last.status = 200 /\ again.dev = device /\ again.log = alarm

\* a registration that replaced the serial of a registered MAC and wrote it
\* onto a record, beside a record of another MAC
C10_Witness ==
    /\ Registered(last)
    /\ last.updatedLogs >= 1
    /\ \E i \in DOMAIN alarm : alarm[i].mac_address # last.mac
    /\ \E i \in DOMAIN alarm :
          alarm[i].mac_address = last.mac /\ alarm[i].id < nextId - 1

---------------------------------------------------------------------------
(* C11 *)

\* the records of the log with the registered MAC
MatchedBy(r, log) == {i \in DOMAIN log : log[i].mac_address = r.mac}

\* C11, as stated: the updatedRecordCount of every successful
\* registerSerial(mac, serial) is the number of records whose deviceMac is
\* mac, also when the call changes no record's serial.
C11_CountIsMatched ==
    [][Registered(last') => last'.updatedLogs = Cardinality(MatchedBy(last', alarm))]_vars

\* C11, amended: the updatedRecordCount of every successful
\* registerSerial(mac, serial) is the number of records whose deviceMac is
\* mac and whose serial was not serial before the call (the records the
\* call changed); it is 0 when the call is repeated with the same arguments
\* and no record of mac was inserted in between.
C11_CountIsChanged ==
    [][Registered(last') =>
          last'.updatedLogs =
              Cardinality({i \in MatchedBy(last', alarm) :
                              alarm[i].serial # <<last'.serial>>})]_vars

\* a registration for a MAC whose records all carry the serial already (a
\* repeated call): it matched records and changed none
C11_Witness ==
    /\ Registered(last)
    /\ MatchedBy(last, alarm) # {}
    /\ last.updatedLogs = 0

---------------------------------------------------------------------------
(* C12 *)

\* the registry maps the MAC of the request to its serial
RegistryMaps(dev, mac, serial) ==
    \E i \in DOMAIN dev : dev[i].mac_address = mac /\ dev[i].serial = serial

\* C12: when the upsert of registerSerial(mac, serial) succeeds and the
\* back-fill of the records fails, the registration reports success and
\* the registry maps mac to serial.
C12_BackfillFailureIsSuccess ==
    [][(last'.op = "registerSerial" /\ last'.error = "updateMany") =>
          /\ last'.status = 200
          /\ RegistryMaps(device', last'.mac, last'.serial)]_vars

---------------------------------------------------------------------------
(* C13 *)

\* text occurs somewhere in whole, letter for letter, compared without case
Contains(whole, text) ==
    \E k \in 0..(Len(whole) - Len(text)) :
        \A j \in DOMAIN text : ToLowerCase(text[j]) = ToLowerCase(whole[k + j])

\* a filter is supplied: the parameter is given and is not the empty text
Supplied(param) == param # <<>> /\ param[1] # <<>>

\* the record matches every supplied filter: deviceMac by case-insensitive
\* partial match, deviceIp exactly, active as the boolean the text names
MatchesFilters(doc, q) ==
    /\ Supplied(q.mac) => Contains(doc.mac_address, q.mac[1])
    /\ Supplied(q.ip) => doc.ip_address = q.ip[1]
    /\ Supplied(q.active) =>
          doc.active = (LowerText(q.active[1]) = <<"t", "r", "u", "e">>)

\* C13: listFiltered fails with InvalidQuery (status 400), returning no
\* record and changing no state, exactly when none of the filters mac, ip,
\* active is supplied; with a filter supplied it returns the records that
\* match every supplied filter (said here of the requests the handler
\* answers without an error of the storage or of the pattern).
C13_FilterContract ==
    [][(last'.op = "listFiltered" /\ last'.error = "") =>
          LET q == last'.query
              none == ~Supplied(q.mac) /\ ~Supplied(q.ip) /\ ~Supplied(q.active)
              matching == SelectSeq(alarm, LAMBDA doc : MatchesFilters(doc, q))
          IN  /\ alarm' = alarm /\ device' = device /\ up'
              /\ (last'.status = 400) <=> none
              /\ none => last'.result = <<>>
              /\ ~none => /\ last'.status = 200
                          /\ last'.result = SelectEach(SortNewestFirst(matching), FALSE)]_vars

\* the mac parameter holds a dot
HasDot(param) == \E j \in DOMAIN param : \E k \in DOMAIN param[j] : param[j][k] = "."

\* C13, of the requests whose mac holds no character that a regular
\* expression reads as anything but itself: the same statement (it holds)
C13_LiteralFilterContract ==
    [][(last'.op = "listFiltered" /\ last'.error = "" /\ ~HasDot(last'.query.mac)) =>
          LET q == last'.query
              none == ~Supplied(q.mac) /\ ~Supplied(q.ip) /\ ~Supplied(q.active)
              matching == SelectSeq(alarm, LAMBDA doc : MatchesFilters(doc, q))
          IN  /\ alarm' = alarm /\ device' = device /\ up'
              /\ (last'.status = 400) <=> none
              /\ none => last'.result = <<>>
              /\ ~none => /\ last'.status = 200
                          /\ last'.result = SelectEach(SortNewestFirst(matching), FALSE)]_vars

---------------------------------------------------------------------------

(* C14 *)

\* the retention window of 30 days, in hours
RetentionHours == 30 * 24

\* startedAt is older than the retention window at the clock's time
OlderThanWindow(doc, clock) == clock - doc.timestamp > RetentionHours

\* an answered query
Answered(r) == r.op \in {"listAll", "listFiltered"} /\ r.status = 200

\* C14, as stated: a record whose startedAt is older than the retention
\* window is in no query result, whatever its active flag.
C14_OldNeverReturned ==
    Answered(last) =>
        \A k \in DOMAIN last.result : ~OlderThanWindow(last.result[k], now)

\* C14, amended: the expiry pass of the storage engine removes every record
\* whose startedAt is older than the retention window, active or not, and
\* no other record; a removed record never comes back into the log, and a
\* query returns only records that are in the log, so that a record is
\* absent from every query result from the pass that removed it (and can
\* be returned until that pass).
C14_ExpiryPassRemoves ==
    [][/\ last'.op = "expire" =>
            /\ \A i \in DOMAIN alarm' : ~OlderThanWindow(alarm'[i], now')
            /\ \A i \in DOMAIN alarm :
                  ~OlderThanWindow(alarm[i], now) =>
                      \E j \in DOMAIN alarm' : alarm'[j] = alarm[i]
       /\ \A j \in DOMAIN alarm' :
            \/ alarm'[j].id >= nextId
            \/ \E i \in DOMAIN alarm : alarm[i].id = alarm'[j].id
       /\ Answered(last') =>
            \A k \in DOMAIN last'.result :
                \E i \in DOMAIN alarm :
                    /\ alarm[i].timestamp = last'.result[k].timestamp
                    /\ alarm[i].mac_address = last'.result[k].mac_address
                    /\ alarm[i].active = last'.result[k].active]_vars

\* an expiry pass that removed an active record and a record that was not
\* active, and left a record in the log
C14_Witness ==
    /\ last.op = "expire"
    /\ \E k \in DOMAIN last.result : last.result[k].active
    /\ \E k \in DOMAIN last.result : ~last.result[k].active
    /\ alarm # <<>>

---------------------------------------------------------------------------

(* C15 *)

\* the handler of a message that has ended without an error
EndedMessage(h) == h.op = "message" /\ h.pc = "done" /\ h.error = ""

\* the handler of a RAISE with code > 0 that has saved its record
EndedRaise(h) ==
    EndedMessage(h) /\ ~h.flag.nan /\ h.flag.val = 1 /\ h.created # 0

\* the handler of a CLEAR with code > 0 that has ended
EndedClear(h) ==
    /\ EndedMessage(h) /\ ~h.flag.nan /\ h.flag.val = 0
    /\ ~h.code.nan /\ h.code.val > 0

\* C15: when a RAISE with code > 0 and then a CLEAR with code > 0 of the
\* same (deviceMac, deviceIp) have been delivered in that order and both
\* handlers have ended, the record the RAISE created has active = false,
\* however the storage calls of the two handlers interleaved.
C15_ClearAfterRaiseCloses ==
    \A a, b \in DOMAIN handlers :
        (/\ a < b
         /\ EndedRaise(handlers[a]) /\ EndedClear(handlers[b])
         /\ handlers[a].mac = handlers[b].mac /\ handlers[a].ip = handlers[b].ip) =>
            \A i \in DOMAIN alarm :
                alarm[i].id = handlers[a].created => ~alarm[i].active

---------------------------------------------------------------------------
(* C16 *)

\* C16: at most one message is being handled at any time: the handler of a
\* message has made all of its storage calls (it has ended) before the
\* handler of a message delivered after it has made any.
C16_OneMessageAtATime ==
    \A a, b \in DOMAIN handlers :
        (/\ a < b
         /\ handlers[a].op = "message" /\ handlers[b].op = "message"
         /\ handlers[b].calls > 0) =>
            handlers[a].pc = "done"

---------------------------------------------------------------------------
(* C17 *)

\* no event handler and no registration is in flight
Quiescent == \A k \in DOMAIN handlers : handlers[k].pc = "done"

\* C17: once no handler is in flight, every record whose deviceMac has a
\* registry entry carries the serial of that entry.
C17_SerialCurrentWhenQuiescent ==
    Quiescent =>
        \A i \in DOMAIN alarm : \A d \in DOMAIN device :
            device[d].mac_address = alarm[i].mac_address =>
                alarm[i].serial = <<device[d].serial>>

---------------------------------------------------------------------------
(* C18 *)

\* the record is closed: active = false and a stoppedAt
Closed(doc) == ~doc.active /\ doc.stop_timestamp # <<>>

\* C18: a record that is closed (active = false, a stoppedAt) is closed
\* with the same stoppedAt after every step of every handler, of events
\* (RAISE, CLEAR, a CLEAR repeated later) and of registrations, and a
\* record with active = true has no stoppedAt.
C18_ClosedStaysClosed ==
    [][/\ \A i \in DOMAIN alarm : \A j \in DOMAIN alarm' :
            (Closed(alarm[i]) /\ alarm'[j].id = alarm[i].id) =>
                /\ ~alarm'[j].active
                /\ alarm'[j].stop_timestamp = alarm[i].stop_timestamp
       /\ \A j \in DOMAIN alarm' :
            alarm'[j].active => alarm'[j].stop_timestamp = <<>>]_vars

\* a record closed by the first CLEAR, still stopped at that time when the
\* later CLEAR of its device has ended
C18_Witness ==
    /\ \E i \in DOMAIN alarm :
          /\ Closed(alarm[i])
          /\ alarm[i].timestamp < alarm[i].stop_timestamp[1]
          /\ \E k \in DOMAIN handlers :
                /\ EndedClear(handlers[k])
                /\ handlers[k].calls = 3
                /\ handlers[k].mac = alarm[i].mac_address
                /\ handlers[k].ip = alarm[i].ip_address
                /\ handlers[k].time.t > alarm[i].stop_timestamp[1]

---------------------------------------------------------------------------

(* C19 *)

\* C19: a client whose connection was lost is connected and subscribed
\* again, as long as the broker can be reached and the subscribe request is
\* not refused; the client is never connected without having asked for
\* the subscription; and no message is handled, no record written and no
\* client set up before the connection to MongoDB is made.
C19_ReconnectsAndSubscribes ==
    /\ (client.state = "disconnected") ~>
          (client.state \in {"subscribed", "refused"} \/ ~broker)
    /\ [](client.state # "connected")
    /\ []((last.op = "message" \/ alarm # <<>> \/ client.state # "absent") =>
             mongoose = "connected")

\* a message handled by a client that lost its connection and is connected
\* and subscribed again
C19_Witness ==
    /\ client.state = "subscribed"
    /\ client.connects >= 2
    /\ last.op = "message"
    /\ alarm # <<>>

---------------------------------------------------------------------------

(* C20 *)

\* C20: every record in the alarm log has code >= 1, whatever integers the
\* flag and the code of the accepted messages are, and an accepted message
\* whose flag is an integer other than 0 and 1 changes nothing.
C20_CodeAtLeastOne ==
    [][/\ \A i \in DOMAIN alarm' : alarm'[i].status >= 1
       /\ (AcceptedMessage(last') /\ ~last'.flag.nan /\ last'.flag.val \notin {0, 1}) =>
             (alarm' = alarm /\ device' = device)]_vars

===========================================================================
